---- MODULE Spec2Model ----
(***************************************************************************)
(* Model of modal/render_video.py: the HTTP adapter render_video_endpoint, *)
(* the invoker render_video, the child render process it launches, and the *)
(* progressCallback of the generated driver script render.js.              *)
(*                                                                         *)
(* One container is modelled.  Its filesystem (the driver script and the   *)
(* fixed output path /tmp/output.mp4) is the only state that outlives a    *)
(* request; everything else is the state of the request being served.      *)
(***************************************************************************)
EXTENDS Integers, Sequences, FiniteSets, TLC

VARIABLES
    pc,            \* stage of the request being served
    data,          \* the request body (a dict: key -> JSON value)
    args,          \* keyword arguments render_video_endpoint passes to render_video
    params,        \* the params dict render_video builds
    argv2,         \* json.dumps(params), the child's process.argv[2]
    variables,     \* the variables object render.js hands to renderVideo
    fs,            \* container filesystem: driver script and output file
    launches,      \* child processes started for this request
    scriptWrites,  \* writes of /app/video/render.js during this request
    exited,        \* the child of this request has exited
    returncode,    \* result.returncode
    wrote,         \* the child of this request wrote /tmp/output.mp4
    ops,           \* the invoker's accesses to /tmp/output.mp4, in order
    raised,        \* the exception that ended the invocation path, if any
    returned,      \* render_video returned bytes
    video_bytes,   \* the bytes render_video returned
    responded,     \* render_video_endpoint returned a body
    response,      \* that body
    timedOut,      \* the platform ended the invocation at its timeout
    lastLoggedPct, \* render.js: let lastLoggedPct
    console,       \* render.js: percentages logged by progressCallback
    reported       \* render.js: the progress values reported so far, as k of k / ProgressSteps

vars == <<pc, data, args, params, argv2, variables, fs, launches, scriptWrites,
          exited, returncode, wrote, ops, raised, returned, video_bytes,
          responded, response, timedOut, lastLoggedPct, console, reported>>

requestVars == <<pc, data, args, params, argv2, variables, fs, launches,
                 scriptWrites, exited, returncode, wrote, ops, raised, returned,
                 video_bytes, responded, response, timedOut>>

driverVars == <<lastLoggedPct, console, reported>>

(***************************************************************************)
(* Bounds of the model.                                                    *)
(***************************************************************************)
\* longest output file, in bytes
MaxLen == 3
\* progress values are k / ProgressSteps, k in 0..ProgressSteps
ProgressSteps == 20
\* progressCallback invocations in one render
MaxCalls == 3

(***************************************************************************)
(* JSON values, as FastAPI hands them to Python and as json.dumps hands    *)
(* them to JSON.parse.                                                     *)
(***************************************************************************)
None == [t |-> "null"]
List(items) == [t |-> "list", items |-> items]
Str(s) == [t |-> "str", s |-> s]
Num(n) == [t |-> "num", n |-> n]

\* Python truth value of a JSON value (the left operand of `or`)
PyTruthy(v) ==
    CASE v.t = "null" -> FALSE
      [] v.t = "list" -> v.items # <<>>
      [] v.t = "str"  -> v.s # ""
      [] v.t = "num"  -> v.n # 0

\* JavaScript truth value of a JSON value (the left operand of `||`)
JsTruthy(v) ==
    CASE v.t = "null" -> FALSE
      [] v.t = "list" -> TRUE
      [] v.t = "str"  -> v.s # ""
      [] v.t = "num"  -> v.n # 0

\* the default both the invoker and the driver substitute for gradient colors
DefaultGradient == List(<<Str("#1a1a2e"), Str("#16213e")>>)

RENDER_SCRIPT == "render.js"
OUTPUT_PATH == "/tmp/output.mp4"

(***************************************************************************)
(* Request bodies.                                                         *)
(***************************************************************************)
RequiredOrder == <<"audioUrl", "backgroundUrl", "backgroundType", "durationInSeconds">>
RequiredKeys == {RequiredOrder[i] : i \in 1..Len(RequiredOrder)}
OptionalKeys == {"captions", "gradientColors", "hook", "patternInterrupts"}

Caption(w, s, e) == [word |-> w, startTime |-> s, endTime |-> e]

Supplied(k) ==
    CASE k = "audioUrl"          -> {Str("https://assets/audio.mp3")}
      [] k = "backgroundUrl"     -> {Str("")}
      [] k = "backgroundType"    -> {Str("gradient")}
      [] k = "durationInSeconds" -> {Num(5)}
      [] k = "captions"          -> {None, List(<<>>),
                                     List(<<Caption("Hello", 0, 1), Caption("world", 1, 2)>>)}
      [] k = "gradientColors"    -> {None, List(<<>>),
                                     List(<<Str("#000000"), Str("#ffffff")>>)}
      [] k = "hook"              -> {None, Str(""), Str("Wait for it")}
      [] k = "patternInterrupts" -> {None, List(<<>>), List(<<Str("zoom")>>)}

AllKeys == RequiredKeys \cup OptionalKeys

\* bodies carrying all eight keys
FullBodies ==
    {[k \in AllKeys |->
         CASE k = "captions"          -> c
           [] k = "gradientColors"    -> g
           [] k = "hook"              -> h
           [] k = "patternInterrupts" -> p
           [] OTHER                   -> CHOOSE v \in Supplied(k) : TRUE] :
        c \in Supplied("captions"), g \in Supplied("gradientColors"),
        h \in Supplied("hook"), p \in Supplied("patternInterrupts")}

Restrict(d, K) == [k \in K |-> d[k]]

\* every combination of the optional keys with the required keys present, and
\* every set of required keys with the optional keys all absent or all supplied
Bodies ==
    {Restrict(d, RequiredKeys \cup O) : d \in FullBodies, O \in SUBSET OptionalKeys}
    \cup {Restrict(d, R \cup O) :
             d \in {f \in FullBodies : \A k \in OptionalKeys : PyTruthy(f[k])},
             R \in SUBSET RequiredKeys, O \in {{}, OptionalKeys}}

NoData == <<>>
NoException == [type |-> "none", msg |-> ""]

(***************************************************************************)
(* Files.                                                                  *)
(***************************************************************************)
Byte == {0, 251}
ByteSeqs == UNION {[1..n -> Byte] : n \in 0..MaxLen}
NoFile == [exists |-> FALSE, bytes |-> <<>>]
File(b) == [exists |-> TRUE, bytes |-> b]

(***************************************************************************)
(* base64.b64encode(video_bytes).decode("utf-8")                           *)
(***************************************************************************)
\* ASCII code of the base64 digit with value i
B64Code(i) ==
    CASE i < 26 -> 65 + i
      [] i >= 26 /\ i < 52 -> 97 + (i - 26)
      [] i >= 52 /\ i < 62 -> 48 + (i - 52)
      [] i = 62 -> 43
      [] i = 63 -> 47

PadCode == 61

RECURSIVE b64encode(_)
b64encode(b) ==
    IF Len(b) = 0 THEN <<>>
    ELSE IF Len(b) = 1 THEN
        <<B64Code(b[1] \div 4), B64Code((b[1] % 4) * 16), PadCode, PadCode>>
    ELSE IF Len(b) = 2 THEN
        <<B64Code(b[1] \div 4),
          B64Code((b[1] % 4) * 16 + b[2] \div 16),
          B64Code((b[2] % 16) * 4), PadCode>>
    ELSE
        <<B64Code(b[1] \div 4),
          B64Code((b[1] % 4) * 16 + b[2] \div 16),
          B64Code((b[2] % 16) * 4 + b[3] \div 64),
          B64Code(b[3] % 64)>> \o b64encode(SubSeq(b, 4, Len(b)))

Upper == <<"A", "B", "C", "D", "E", "F", "G", "H", "I", "J", "K", "L", "M",
           "N", "O", "P", "Q", "R", "S", "T", "U", "V", "W", "X", "Y", "Z">>
Lower == <<"a", "b", "c", "d", "e", "f", "g", "h", "i", "j", "k", "l", "m",
           "n", "o", "p", "q", "r", "s", "t", "u", "v", "w", "x", "y", "z">>
Digits == <<"0", "1", "2", "3", "4", "5", "6", "7", "8", "9">>

\* the character with ASCII code c, for the codes base64 text is made of
AsciiChar(c) ==
    CASE c >= 65 /\ c <= 90  -> Upper[c - 64]
      [] c >= 97 /\ c <= 122 -> Lower[c - 96]
      [] c >= 48 /\ c <= 57  -> Digits[c - 47]
      [] c = 43 -> "+"
      [] c = 47 -> "/"
      [] c = 61 -> "="

\* bytes.decode("utf-8") on ASCII text: one character per byte
Utf8Decode(codes) == [i \in 1..Len(codes) |-> AsciiChar(codes[i])]

(***************************************************************************)
(* render_video_endpoint: argument extraction and the two bodies           *)
(***************************************************************************)
KeyError(k) == [type |-> "KeyError", msg |-> "'" \o k \o "'"]
TypeError(m) == [type |-> "TypeError", msg |-> m]
Exception(m) == [type |-> "Exception", msg |-> m]

\* str(e)
PyStr(e) == e.msg

\* dict.get(k, default)
Get(d, k, default) == IF k \in DOMAIN d THEN d[k] ELSE default

MissingRequired(d) == {i \in 1..Len(RequiredOrder) : RequiredOrder[i] \notin DOMAIN d}

\* the first data["..."] subscript that fails, in evaluation order
FirstMissing(d) ==
    RequiredOrder[CHOOSE i \in MissingRequired(d) : \A j \in MissingRequired(d) : i <= j]

NoArgs == <<>>

\* faulty variant: captions read with data["captions"]
ExtractArgs_SubscriptCaptions(d) ==
    IF MissingRequired(d) # {} THEN [exc |-> KeyError(FirstMissing(d)), args |-> NoArgs]
    ELSE IF "captions" \notin DOMAIN d THEN [exc |-> KeyError("captions"), args |-> NoArgs]
    ELSE [exc |-> NoException,
          args |-> [audio_url |-> d["audioUrl"],
                    background_url |-> d["backgroundUrl"],
                    background_type |-> d["backgroundType"],
                    captions |-> d["captions"],
                    duration_in_seconds |-> d["durationInSeconds"],
                    gradient_colors |-> Get(d, "gradientColors", None),
                    hook |-> Get(d, "hook", None),
                    pattern_interrupts |-> Get(d, "patternInterrupts", None)]]

\* faulty variant: required keys read with data.get(...)
ExtractArgs_GetRequired(d) ==
    [exc |-> NoException,
     args |-> [audio_url |-> Get(d, "audioUrl", None),
               background_url |-> Get(d, "backgroundUrl", None),
               background_type |-> Get(d, "backgroundType", None),
               captions |-> Get(d, "captions", List(<<>>)),
               duration_in_seconds |-> Get(d, "durationInSeconds", None),
               gradient_colors |-> Get(d, "gradientColors", None),
               hook |-> Get(d, "hook", None),
               pattern_interrupts |-> Get(d, "patternInterrupts", None)]]

\* the keyword arguments of render_video.local(...), or the KeyError raised
\* while evaluating them
ExtractArgs(d) ==
    IF MissingRequired(d) # {} THEN [exc |-> KeyError(FirstMissing(d)), args |-> NoArgs]
    ELSE [exc |-> NoException,
          args |-> [audio_url |-> d["audioUrl"],
                    background_url |-> d["backgroundUrl"],
                    background_type |-> d["backgroundType"],
                    captions |-> Get(d, "captions", List(<<>>)),
                    duration_in_seconds |-> d["durationInSeconds"],
                    gradient_colors |-> Get(d, "gradientColors", None),
                    hook |-> Get(d, "hook", None),
                    pattern_interrupts |-> Get(d, "patternInterrupts", None)]]

\* faulty variant: the handler drops the message
FailureBody_NoMessage(e) == [success |-> FALSE, error |-> ""]

\* the body of the except branch
FailureBody(e) == [success |-> FALSE, error |-> PyStr(e)]

\* faulty variant: size counts the base64 text
SuccessBody_EncodedSize(b) ==
    [success |-> TRUE,
     videoBase64 |-> Utf8Decode(b64encode(b)),
     size |-> Len(b64encode(b))]

\* the body of the try branch
SuccessBody(b) ==
    [success |-> TRUE,
     videoBase64 |-> Utf8Decode(b64encode(b)),
     size |-> Len(b)]

NoBody == <<>>

(***************************************************************************)
(* render_video: parameters, the child's argument, the driver's variables  *)
(***************************************************************************)
\* len(v): the TypeError it raises, or NoException
PyLenError(v) ==
    CASE v.t = "null" -> TypeError("object of type 'NoneType' has no len()")
      [] v.t = "num"  -> TypeError("object of type 'int' has no len()")
      [] OTHER        -> NoException

\* a or b
PyOr(a, b) == IF PyTruthy(a) THEN a ELSE b

\* a || b
JsOr(a, b) == IF JsTruthy(a) THEN a ELSE b

\* the exception the first print of render_video raises, or NoException
LogLineError(a) ==
    IF PyLenError(a.captions) # NoException THEN PyLenError(a.captions)
    ELSE PyLenError(PyOr(a.pattern_interrupts, List(<<>>)))

ParamOrder == <<"audioUrl", "backgroundUrl", "backgroundType", "captions",
                "durationInSeconds", "gradientColors", "hook", "patternInterrupts">>
ParamKeys == {ParamOrder[i] : i \in 1..Len(ParamOrder)}

\* faulty variant: pattern_interrupts forwarded without the `or []`
BuildParams_NoInterruptDefault(a) ==
    [k \in ParamKeys |->
        CASE k = "audioUrl"          -> a.audio_url
          [] k = "backgroundUrl"     -> a.background_url
          [] k = "backgroundType"    -> a.background_type
          [] k = "captions"          -> a.captions
          [] k = "durationInSeconds" -> a.duration_in_seconds
          [] k = "gradientColors"    -> PyOr(a.gradient_colors, DefaultGradient)
          [] k = "hook"              -> a.hook
          [] k = "patternInterrupts" -> a.pattern_interrupts]

\* the params dict
BuildParams(a) ==
    [k \in ParamKeys |->
        CASE k = "audioUrl"          -> a.audio_url
          [] k = "backgroundUrl"     -> a.background_url
          [] k = "backgroundType"    -> a.background_type
          [] k = "captions"          -> a.captions
          [] k = "durationInSeconds" -> a.duration_in_seconds
          [] k = "gradientColors"    -> PyOr(a.gradient_colors, DefaultGradient)
          [] k = "hook"              -> a.hook
          [] k = "patternInterrupts" -> PyOr(a.pattern_interrupts, List(<<>>))]

\* json.dumps(params): the members of the object, in the dict's insertion order
JsonDumps(p) == [i \in 1..Len(ParamOrder) |-> <<ParamOrder[i], p[ParamOrder[i]]>>]

\* JSON.parse(process.argv[2]): the object with those members
JsonParse(text) ==
    [k \in {text[i][1] : i \in DOMAIN text} |->
        text[CHOOSE i \in DOMAIN text : text[i][1] = k][2]]

\* the variables object of the renderVideo call
DriverVariables(p) ==
    [audioUrl |-> p["audioUrl"],
     backgroundUrl |-> p["backgroundUrl"],
     backgroundType |-> p["backgroundType"],
     captions |-> p["captions"],
     durationInSeconds |-> p["durationInSeconds"],
     gradientColors |-> JsOr(p["gradientColors"], DefaultGradient),
     hook |-> p["hook"],
     patternInterrupts |-> JsOr(p["patternInterrupts"], List(<<>>))]

(***************************************************************************)
(* render_video: after the child has exited                                *)
(***************************************************************************)
ExitError(code) == Exception("Render process exited with code " \o ToString(code))
MissingOutputError == Exception("Output file not found at " \o OUTPUT_PATH)
FileNotFoundError ==
    [type |-> "FileNotFoundError",
     msg |-> "[Errno 2] No such file or directory: '" \o OUTPUT_PATH \o "'"]

\* faulty variant: the output file is looked for before the exit code is checked
RenderResult_ExistsFirst(code, file) ==
    IF ~file.exists THEN [exc |-> MissingOutputError, ops |-> <<"exists">>, bytes |-> <<>>]
    ELSE IF code # 0 THEN [exc |-> ExitError(code), ops |-> <<"exists">>, bytes |-> <<>>]
    ELSE [exc |-> NoException, ops |-> <<"exists", "getsize", "open">>, bytes |-> file.bytes]

\* faulty variant: no os.path.exists check
RenderResult_NoExistsCheck(code, file) ==
    IF code # 0 THEN [exc |-> ExitError(code), ops |-> <<>>, bytes |-> <<>>]
    ELSE IF ~file.exists THEN [exc |-> FileNotFoundError, ops |-> <<"getsize">>, bytes |-> <<>>]
    ELSE [exc |-> NoException, ops |-> <<"getsize", "open">>, bytes |-> file.bytes]

\* faulty variant: the exit code is not checked
RenderResult_IgnoreExit(code, file) ==
    IF ~file.exists THEN [exc |-> MissingOutputError, ops |-> <<"exists">>, bytes |-> <<>>]
    ELSE [exc |-> NoException, ops |-> <<"exists", "getsize", "open">>, bytes |-> file.bytes]

\* what render_video does once subprocess.run has returned: the exception it
\* raises or the bytes it returns, and its accesses to the output path
RenderResult(code, file) ==
    IF code # 0 THEN [exc |-> ExitError(code), ops |-> <<>>, bytes |-> <<>>]
    ELSE IF ~file.exists THEN [exc |-> MissingOutputError, ops |-> <<"exists">>, bytes |-> <<>>]
    ELSE [exc |-> NoException, ops |-> <<"exists", "getsize", "open">>, bytes |-> file.bytes]

(***************************************************************************)
(* State                                                                   *)
(***************************************************************************)
ExitCodes == {0, 1, -9}
ChildOutputs == {NoFile} \cup {File(b) : b \in ByteSeqs}

\* the filesystem of a container started from the image
FreshFs == [script |-> "", output |-> NoFile]

\* the state in which a container waits for a request
Fresh ==
    /\ pc = "Idle"
    /\ data = NoData
    /\ args = NoArgs
    /\ params = <<>>
    /\ argv2 = <<>>
    /\ variables = <<>>
    /\ launches = 0
    /\ scriptWrites = 0
    /\ exited = FALSE
    /\ returncode = 0
    /\ wrote = FALSE
    /\ ops = <<>>
    /\ raised = NoException
    /\ returned = FALSE
    /\ video_bytes = <<>>
    /\ responded = FALSE
    /\ response = NoBody
    /\ timedOut = FALSE

\* the state of the finished request is dropped
Reset ==
    /\ pc' = "Idle"
    /\ data' = NoData
    /\ args' = NoArgs
    /\ params' = <<>>
    /\ argv2' = <<>>
    /\ variables' = <<>>
    /\ launches' = 0
    /\ scriptWrites' = 0
    /\ exited' = FALSE
    /\ returncode' = 0
    /\ wrote' = FALSE
    /\ ops' = <<>>
    /\ raised' = NoException
    /\ returned' = FALSE
    /\ video_bytes' = <<>>
    /\ responded' = FALSE
    /\ response' = NoBody
    /\ timedOut' = FALSE

Init ==
    /\ Fresh
    /\ fs = FreshFs
    /\ lastLoggedPct = -1
    /\ console = <<>>
    /\ reported = <<>>

(***************************************************************************)
(* Actions of a request                                                    *)
(***************************************************************************)
\* the except branch of render_video_endpoint, reached with exception e
Fail(e) ==
    /\ pc' = "Failed"
    /\ raised' = e
    /\ responded' = TRUE
    /\ response' = FailureBody(e)

\* a POST arrives: render_video_endpoint evaluates the arguments of the call
Receive(d) ==
    /\ pc = "Idle"
    /\ data' = d
    /\ LET r == ExtractArgs(d) IN
          IF r.exc # NoException
          THEN /\ Fail(r.exc)
               /\ UNCHANGED args
          ELSE /\ pc' = "BuildingParams"
               /\ args' = r.args
               /\ UNCHANGED <<raised, responded, response>>
    /\ UNCHANGED <<params, argv2, variables, fs, launches, scriptWrites, exited,
                   returncode, wrote, ops, returned, video_bytes, timedOut>>
    /\ UNCHANGED driverVars

\* render_video up to subprocess.run: log line, driver script, params, launch
BuildAndLaunch ==
    /\ pc = "BuildingParams"
    /\ IF LogLineError(args) # NoException
       THEN /\ Fail(LogLineError(args))
            /\ UNCHANGED <<params, argv2, variables, fs, launches, scriptWrites>>
       ELSE /\ fs' = [fs EXCEPT !.script = RENDER_SCRIPT]
            /\ scriptWrites' = scriptWrites + 1
            /\ params' = BuildParams(args)
            /\ argv2' = JsonDumps(params')
            /\ variables' = DriverVariables(JsonParse(argv2'))
            /\ launches' = launches + 1
            /\ pc' = "Rendering"
            /\ UNCHANGED <<raised, responded, response>>
    /\ UNCHANGED <<data, args, exited, returncode, wrote, ops, returned,
                   video_bytes, timedOut>>
    /\ UNCHANGED driverVars

\* the child exits with `code`, having written `out` (or nothing) to the output path
ChildExit(code, out) ==
    /\ pc = "Rendering"
    /\ exited' = TRUE
    /\ returncode' = code
    /\ wrote' = out.exists
    /\ fs' = IF out.exists THEN [fs EXCEPT !.output = out] ELSE fs
    /\ pc' = "Verifying"
    /\ UNCHANGED <<data, args, params, argv2, variables, launches, scriptWrites,
                   ops, raised, returned, video_bytes, responded, response, timedOut>>
    /\ UNCHANGED driverVars

\* the platform's timeout ends the invocation while it waits for the child
Timeout ==
    /\ pc = "Rendering"
    /\ timedOut' = TRUE
    /\ pc' = "Failed"
    /\ UNCHANGED <<data, args, params, argv2, variables, fs, launches, scriptWrites,
                   exited, returncode, wrote, ops, raised, returned, video_bytes,
                   responded, response>>
    /\ UNCHANGED driverVars

\* the rest of render_video and of render_video_endpoint
Finish ==
    /\ pc = "Verifying"
    /\ LET r == RenderResult(returncode, fs.output) IN
          /\ ops' = r.ops
          /\ IF r.exc # NoException
             THEN /\ Fail(r.exc)
                  /\ UNCHANGED <<returned, video_bytes>>
             ELSE /\ returned' = TRUE
                  /\ video_bytes' = r.bytes
                  /\ responded' = TRUE
                  /\ response' = SuccessBody(r.bytes)
                  /\ pc' = "Done"
                  /\ UNCHANGED raised
    /\ UNCHANGED <<data, args, params, argv2, variables, fs, launches, scriptWrites,
                   exited, returncode, wrote, timedOut>>
    /\ UNCHANGED driverVars

\* the container, kept warm, waits for its next request
NextRequest ==
    /\ pc \in {"Done", "Failed"}
    /\ Reset
    /\ UNCHANGED fs
    /\ UNCHANGED driverVars

\* the next request is served by a new container
ColdStart ==
    /\ pc \in {"Done", "Failed"}
    /\ Reset
    /\ fs' = FreshFs
    /\ UNCHANGED driverVars

(***************************************************************************)
(* render.js: progressCallback                                             *)
(***************************************************************************)
Workers == {0, 1}

\* Math.floor(progress * 10) * 10 for progress = k / ProgressSteps
Pct(k) == ((k * 10) \div ProgressSteps) * 10

\* faulty variant: any change of the percentage is logged
ShouldLog_OnChange(pct, last) == pct # last

\* the guard of the callback
ShouldLog(pct, last) == pct > last

progressCallback(workerId, k) ==
    /\ Len(reported) < MaxCalls
    /\ reported' = Append(reported, k)
    /\ IF ShouldLog(Pct(k), lastLoggedPct)
       THEN /\ lastLoggedPct' = Pct(k)
            /\ console' = Append(console, Pct(k))
       ELSE UNCHANGED <<lastLoggedPct, console>>
    /\ UNCHANGED requestVars

(***************************************************************************)
(* Specifications                                                          *)
(***************************************************************************)
Next ==
    \/ \E d \in Bodies : Receive(d)
    \/ BuildAndLaunch
    \/ \E code \in ExitCodes, out \in ChildOutputs : ChildExit(code, out)
    \/ Timeout
    \/ Finish
    \/ NextRequest
    \/ ColdStart

Spec == Init /\ [][Next]_vars

\* the child process alone, over one render
NextDriver == \E w \in Workers, k \in 0..ProgressSteps : progressCallback(w, k)

SpecDriver == Init /\ [][NextDriver]_vars

(***************************************************************************)
(* Vocabulary of the properties                                            *)
(***************************************************************************)
Range(seq) == {seq[i] : i \in DOMAIN seq}

Finished == pc \in {"Done", "Failed"}

RequiredPresent == data # NoData /\ MissingRequired(data) = {}

\* the reference base64 decoder (RFC 4648), the reader's side of videoBase64
B64Digits == Upper \o Lower \o Digits \o <<"+", "/">>
B64Value(ch) == (CHOOSE i \in 1..64 : B64Digits[i] = ch) - 1

RECURSIVE b64decode(_)
b64decode(t) ==
    IF Len(t) = 0 THEN <<>>
    ELSE IF t[3] = "=" THEN
        <<B64Value(t[1]) * 4 + B64Value(t[2]) \div 16>>
    ELSE IF t[4] = "=" THEN
        <<B64Value(t[1]) * 4 + B64Value(t[2]) \div 16,
          (B64Value(t[2]) % 16) * 16 + B64Value(t[3]) \div 4>>
    ELSE
        <<B64Value(t[1]) * 4 + B64Value(t[2]) \div 16,
          (B64Value(t[2]) % 16) * 16 + B64Value(t[3]) \div 4,
          (B64Value(t[3]) % 4) * 64 + B64Value(t[4])>> \o b64decode(SubSeq(t, 5, Len(t)))

\* a body as the adapter documents it: a boolean success; on failure a
\* non-empty error and no videoBase64
WellFormedBody(b) ==
    /\ "success" \in DOMAIN b
    /\ b.success \in BOOLEAN
    /\ ~b.success => /\ "error" \in DOMAIN b
                     /\ b.error # ""
                     /\ "videoBase64" \notin DOMAIN b

(***************************************************************************)
(* C1: when the child exits with a non-zero code, render_video raises a    *)
(* failure naming that code before any existence check, size query or read *)
(* of /tmp/output.mp4, and returns no bytes.                               *)
(***************************************************************************)
C1_NonZeroExitRaisesFirst ==
    (exited /\ returncode # 0) =>
        /\ ops = <<>>
        /\ ~returned
        /\ pc # "Verifying" =>
              /\ pc = "Failed"
              /\ raised = [type |-> "Exception",
                           msg |-> "Render process exited with code " \o ToString(returncode)]

C1_Witness ==
    /\ pc = "Failed"
    /\ exited
    /\ returncode = -9
    /\ fs.output.exists

(***************************************************************************)
(* C2: when the child exits 0 and /tmp/output.mp4 does not exist,          *)
(* render_video raises its own 'Output file not found' failure, distinct   *)
(* from the exit-code failure, never opens or reads the missing file and   *)
(* returns no result.                                                      *)
(***************************************************************************)
C2_MissingOutputRaises ==
    (exited /\ returncode = 0 /\ ~fs.output.exists) =>
        /\ ~returned
        /\ pc # "Verifying" =>
              /\ pc = "Failed"
              /\ raised = [type |-> "Exception",
                           msg |-> "Output file not found at /tmp/output.mp4"]
              /\ raised # ExitError(returncode)
              /\ Range(ops) \cap {"getsize", "open"} = {}
              /\ responded
              /\ "videoBase64" \notin DOMAIN response

C2_Witness ==
    /\ pc = "Failed"
    /\ exited
    /\ returncode = 0
    /\ ~fs.output.exists
    /\ ops = <<"exists">>

(***************************************************************************)
(* C3, as claimed: whatever the outcome of the invocation path (missing    *)
(* key, non-zero child exit, missing output file, timeout, success), the   *)
(* endpoint returns a body with a boolean success field, and on failure a  *)
(* non-empty error string and no videoBase64.                              *)
(***************************************************************************)
C3_Original ==
    Finished => (responded /\ WellFormedBody(response))

(***************************************************************************)
(* C3, amended: for every outcome in which the platform timeout does not   *)
(* end the invocation, the endpoint returns such a body; when the timeout  *)
(* ends the invocation, the endpoint returns no body at all.               *)
(***************************************************************************)
C3_BodyUnlessTimedOut ==
    /\ (Finished /\ ~timedOut) => (responded /\ WellFormedBody(response))
    /\ responded => WellFormedBody(response)
    /\ timedOut => ~responded

C3_Witness ==
    /\ pc = "Failed"
    /\ exited
    /\ responded
    /\ response.success = FALSE

(***************************************************************************)
(* C4: when the child exits 0 and writes the output file, render_video     *)
(* returns exactly the bytes of the file at the output path, and the       *)
(* success body satisfies base64-decode(videoBase64) = those bytes and     *)
(* size = their number.                                                    *)
(***************************************************************************)
C4_RoundTrip ==
    (exited /\ returncode = 0 /\ wrote /\ pc # "Verifying") =>
        /\ pc = "Done"
        /\ returned
        /\ video_bytes = fs.output.bytes
        /\ responded
        /\ response.success = TRUE
        /\ b64decode(response.videoBase64) = video_bytes
        /\ response.size = Len(video_bytes)

C4_Witness ==
    /\ pc = "Done"
    /\ wrote
    /\ Len(video_bytes) >= 2
    /\ video_bytes[1] # video_bytes[2]

(***************************************************************************)
(* C5, as claimed: an omitted gradientColors, hook or patternInterrupts    *)
(* reaches the child's parameters and the driver's variables as its        *)
(* default, a supplied value is forwarded unchanged, and every other field *)
(* is passed through unchanged.                                            *)
(***************************************************************************)
ParamsBuilt == pc \in {"Rendering", "Verifying", "Done"}

Forwarded(k, v) == params[k] = v /\ JsonParse(argv2)[k] = v /\ variables[k] = v

OthersPassedThrough ==
    /\ \A k \in RequiredKeys : Forwarded(k, data[k])
    /\ "captions" \in DOMAIN data => Forwarded("captions", data["captions"])

C5_Original ==
    ParamsBuilt =>
        /\ "gradientColors" \notin DOMAIN data =>
              Forwarded("gradientColors", List(<<Str("#1a1a2e"), Str("#16213e")>>))
        /\ "patternInterrupts" \notin DOMAIN data =>
              Forwarded("patternInterrupts", List(<<>>))
        /\ "hook" \notin DOMAIN data => Forwarded("hook", None)
        /\ \A k \in {"gradientColors", "hook", "patternInterrupts"} :
              k \in DOMAIN data => Forwarded(k, data[k])
        /\ OthersPassedThrough

(***************************************************************************)
(* C5, amended: an omitted gradientColors, hook or patternInterrupts       *)
(* reaches the child's parameters and the driver's variables as its        *)
(* default; a supplied hook is forwarded unchanged; a supplied             *)
(* gradientColors or patternInterrupts is forwarded unchanged when it is   *)
(* neither null nor empty, and is replaced by the field's default when it  *)
(* is; every other field is passed through unchanged.                      *)
(***************************************************************************)
C5_DefaultsAndTruthyForwarding ==
    ParamsBuilt =>
        /\ "gradientColors" \notin DOMAIN data =>
              Forwarded("gradientColors", List(<<Str("#1a1a2e"), Str("#16213e")>>))
        /\ "patternInterrupts" \notin DOMAIN data =>
              Forwarded("patternInterrupts", List(<<>>))
        /\ "hook" \notin DOMAIN data => Forwarded("hook", None)
        /\ "hook" \in DOMAIN data => Forwarded("hook", data["hook"])
        /\ "gradientColors" \in DOMAIN data =>
              IF data["gradientColors"] \in {None, List(<<>>)}
              THEN Forwarded("gradientColors", List(<<Str("#1a1a2e"), Str("#16213e")>>))
              ELSE Forwarded("gradientColors", data["gradientColors"])
        /\ "patternInterrupts" \in DOMAIN data =>
              IF data["patternInterrupts"] \in {None, List(<<>>)}
              THEN Forwarded("patternInterrupts", List(<<>>))
              ELSE Forwarded("patternInterrupts", data["patternInterrupts"])
        /\ OthersPassedThrough

C5_Witness ==
    /\ pc = "Rendering"
    /\ "gradientColors" \in DOMAIN data
    /\ data["gradientColors"] = List(<<>>)
    /\ "patternInterrupts" \notin DOMAIN data
    /\ "hook" \in DOMAIN data
    /\ data["hook"] = Str("Wait for it")

(***************************************************************************)
(* C6: when captions is omitted and the four required keys are present,    *)
(* the endpoint passes an empty sequence of captions to the invoker and    *)
(* the request proceeds to rendering: the omission produces no key error   *)
(* and no failure response.                                                *)
(***************************************************************************)
C6_OmittedCaptionsDefault ==
    (RequiredPresent /\ "captions" \notin DOMAIN data) =>
        /\ args # NoArgs
        /\ args.captions = List(<<>>)
        /\ raised.type \notin {"KeyError", "TypeError"}
        /\ pc # "BuildingParams" => launches = 1
        /\ (responded /\ ~response.success) => exited

C6_Witness ==
    /\ pc = "Rendering"
    /\ "captions" \notin DOMAIN data
    /\ params["captions"] = List(<<>>)

(***************************************************************************)
(* C7: over any sequence of progressCallback invocations, every logged     *)
(* percentage is the 10%-rounded-down value of the progress just reported, *)
(* the logged percentages are strictly increasing, and lastLoggedPct is    *)
(* the highest 10%-rounded percentage reached so far.                      *)
(***************************************************************************)
\* the multiple of 10 with p <= 100 * k / ProgressSteps < p + 10
RoundedDown(k) ==
    CHOOSE p \in {10 * i : i \in 0..10} :
        p * ProgressSteps <= 100 * k /\ 100 * k < (p + 10) * ProgressSteps

Reached == {RoundedDown(reported[i]) : i \in DOMAIN reported}

C7_ProgressMonotone ==
    /\ [](/\ \A i, j \in DOMAIN console : i < j => console[i] < console[j]
          /\ reported = <<>> => lastLoggedPct = -1
          /\ reported # <<>> => /\ lastLoggedPct \in Reached
                                /\ \A p \in Reached : p <= lastLoggedPct)
    /\ [][console' # console =>
             console' = Append(console, RoundedDown(reported'[Len(reported')]))]_vars

C7_Witness ==
    /\ Len(reported) = 3
    /\ Len(console) = 2
    /\ RoundedDown(reported[2]) < RoundedDown(reported[1])
    /\ reported[1] * 10 % ProgressSteps # 0
    /\ lastLoggedPct = 100

(***************************************************************************)
(* C8: a request moves once through Idle -> BuildingParams -> Rendering -> *)
(* Verifying -> Done | Failed: the child is launched at most once, no      *)
(* stage is re-entered, Done and Failed end the request, and Done is       *)
(* reached only after the exit-code check and the output-file check have   *)
(* both passed.                                                            *)
(***************************************************************************)
PipelineEdges ==
    {<<"Idle", "BuildingParams">>, <<"BuildingParams", "Rendering">>,
     <<"Rendering", "Verifying">>, <<"Verifying", "Done">>,
     <<"Idle", "Failed">>, <<"BuildingParams", "Failed">>,
     <<"Rendering", "Failed">>, <<"Verifying", "Failed">>}

C8_LinearPipeline ==
    /\ [](/\ launches <= 1
          /\ pc = "Done" => /\ launches = 1
                            /\ exited
                            /\ returncode = 0
                            /\ "exists" \in Range(ops)
                            /\ fs.output.exists)
    /\ [][IF Finished
          THEN \/ UNCHANGED requestVars
               \/ pc' = "Idle" /\ launches' = 0 /\ ~exited' /\ ~responded'
          ELSE /\ pc' = pc \/ <<pc, pc'>> \in PipelineEdges
               /\ launches' >= launches
               /\ launches' # launches => (pc = "BuildingParams" /\ pc' = "Rendering")]_vars

C8_Witness ==
    /\ pc = "Done"
    /\ launches = 1
    /\ scriptWrites = 1

(***************************************************************************)
(* C9: the bytes a request returns are always the output of its own child  *)
(* process, never the output another request left at /tmp/output.mp4; the  *)
(* driver script a request runs is the one written during that request.    *)
(***************************************************************************)
C9_OwnOutput ==
    /\ returned => wrote
    /\ launches = 1 => (scriptWrites = 1 /\ fs.script = RENDER_SCRIPT)

(***************************************************************************)
(* C10: when the body lacks a required key, the endpoint returns a         *)
(* {success: false, error} body without entering the invoker: the driver   *)
(* script is not written, no child is launched and the output path is left *)
(* unchanged.                                                              *)
(***************************************************************************)
LacksRequired == data # NoData /\ MissingRequired(data) # {}

C10_MissingKeyNoEffect ==
    /\ [](LacksRequired =>
             /\ pc = "Failed"
             /\ responded
             /\ DOMAIN response = {"success", "error"}
             /\ response.success = FALSE
             /\ response.error # ""
             /\ args = NoArgs
             /\ scriptWrites = 0
             /\ launches = 0
             /\ ~exited
             /\ ops = <<>>)
    /\ [][LacksRequired' => fs' = fs]_vars

C10_Witness ==
    /\ LacksRequired
    /\ pc = "Failed"
    /\ fs.output.exists
    /\ "durationInSeconds" \notin DOMAIN data
    /\ "audioUrl" \in DOMAIN data
    /\ response.error = "'durationInSeconds'"

====
